---- MODULE Spec2Model ----
(***************************************************************************)
(* Model of the Facebook-posts-to-chunks ETL: the batch writer             *)
(* (src/src/database_writer.py) and the chunk generator                    *)
(* (src/src/chunk_generator.py).                                           *)
(*                                                                         *)
(* The write port (psycopg2 cursor/connection) is modelled as a            *)
(* transactional table: `pending` holds the rows of the open transaction,  *)
(* `committed` the rows that are durable.  execute and commit may each     *)
(* fail with a psycopg2.Error; rollback and close do not fail.             *)
(* `log` is the history of write-port calls and of insert_chunk returns.   *)
(***************************************************************************)
EXTENDS Integers, Sequences, FiniteSets, TLC

\* ------------------------------------------------------------------ bounds
MaxCommitSize == 3      \* largest batch_commit_size explored
MaxBatch      == 5      \* longest list handed to insert_chunks_batch
MaxSingles    == 2      \* direct insert_chunk calls made before the batch

VARIABLES
    batch_commit_size,  \* DatabaseWriter.batch_commit_size
    connection,         \* DatabaseWriter.connection: "None" | "open" | "closed"
    cursor,             \* DatabaseWriter.cursor:     "None" | "open" | "closed"
    insert_count,       \* DatabaseWriter.insert_count (since last commit)
    total_inserted,     \* DatabaseWriter.total_inserted
    total_failed,       \* DatabaseWriter.total_failed
    pending,            \* rows inserted in the open transaction
    committed,          \* rows durably committed in facebook_chunks
    log,                \* history of port calls and insert_chunk returns
    wpc,                \* position of the writer's caller
    chunks,             \* argument of insert_chunks_batch
    idx,                \* loop position inside insert_chunks_batch (1-based)
    success_count,      \* local of insert_chunks_batch
    failed_count,       \* local of insert_chunks_batch
    stats,              \* value returned by insert_chunks_batch
    singles,            \* number of direct insert_chunk calls made so far
    chunk_size,         \* ChunkGenerator.chunk_size
    post,               \* argument of generate_chunk
    comments,           \* argument of generate_chunk
    full_text,          \* local of generate_chunk: the joined sections
    result,             \* value returned by generate_chunk
    gpc,                \* position of the generator's caller
    hpc,                \* position inside lambda_handler
    reader,             \* DatabaseReader connection: "None" | "open" | "closed"
    db_reader,          \* lambda_handler's db_reader is not None
    db_writer,          \* lambda_handler's db_writer is not None
    posts,              \* lambda_handler's posts
    pidx,               \* position of the loop over posts (1-based)
    chunks_to_insert,   \* lambda_handler's chunks_to_insert
    exc,                \* the exception caught by lambda_handler ("" if none)
    response,           \* value returned by lambda_handler
    hlog,               \* history of the handler's own calls
    posts_with_comments,\* argument of generate_chunks_batch
    bidx,               \* position of generate_chunks_batch's loop (1-based)
    batch_chunks,       \* local `chunks` of generate_chunks_batch
    skipped,            \* positions whose generate_chunk raised
    bpc                 \* position of generate_chunks_batch's caller

wvars == <<batch_commit_size, connection, cursor, insert_count, total_inserted,
           total_failed, pending, committed, log, wpc, chunks, idx,
           success_count, failed_count, stats, singles>>

gvars == <<chunk_size, post, comments, full_text, result, gpc>>

hvars == <<hpc, reader, db_reader, db_writer, posts, pidx, chunks_to_insert,
           exc, response, hlog>>

bvars == <<posts_with_comments, bidx, batch_chunks, skipped, bpc>>

vars == <<wvars, gvars, hvars, bvars>>

\* ------------------------------------------------------------ write port
Ev(e, i, o) == [ev |-> e, id |-> i, ok |-> o]

NoStats == [total |-> -1, success |-> -1, failed |-> -1]

\* The writer object together with the table it writes to.
Writer == [insert_count   |-> insert_count,
           total_inserted |-> total_inserted,
           total_failed   |-> total_failed,
           pending        |-> pending,
           committed      |-> committed,
           log            |-> log,
           raised         |-> FALSE,
           ret            |-> FALSE]

\* connection.rollback(): discards every row of the open transaction.
rollback(w) ==
    [w EXCEPT !.pending = {}, !.log = Append(@, Ev("rollback", 0, TRUE))]

\* cursor.execute(INSERT ...): adds the row to the open transaction or raises.
execute(w, id, insOk) ==
    IF insOk
    THEN [w EXCEPT !.pending = @ \cup {id},
                   !.log = Append(@, Ev("execute", id, TRUE)),
                   !.raised = FALSE]
    ELSE [w EXCEPT !.log = Append(@, Ev("execute", id, FALSE)),
                   !.raised = TRUE]

\* mutant: a failed commit also resets the since-last-commit counter
_commit_reset_on_failure(w, comOk) ==
    IF comOk
    THEN [w EXCEPT !.committed = @ \cup w.pending,
                   !.pending = {},
                   !.total_inserted = @ + w.insert_count,
                   !.insert_count = 0,
                   !.log = Append(@, Ev("commit", 0, TRUE)),
                   !.raised = FALSE]
    ELSE [rollback([w EXCEPT !.log = Append(@, Ev("commit", 0, FALSE))])
             EXCEPT !.raised = TRUE, !.insert_count = 0]

\* DatabaseWriter._commit
_commit(w, comOk) ==
    IF comOk
    THEN [w EXCEPT !.committed = @ \cup w.pending,
                   !.pending = {},
                   !.total_inserted = @ + w.insert_count,
                   !.insert_count = 0,
                   !.log = Append(@, Ev("commit", 0, TRUE)),
                   !.raised = FALSE]
    ELSE [rollback([w EXCEPT !.log = Append(@, Ev("commit", 0, FALSE))])
             EXCEPT !.raised = TRUE]

\* mutant: the checkpoint test written with > in place of >=
commit_due_strict(count, size) == count > size

\* `if self.insert_count >= self.batch_commit_size` in insert_chunk
commit_due(count, size) == count >= size

\* `if self.insert_count > 0` after the loop of insert_chunks_batch
final_commit_due(count) == count > 0

\* mutant: disconnect commits whatever the counter is
disconnect_commit_always(count) == count >= 0

\* `if self.insert_count > 0` in disconnect
disconnect_commit_due(count) == count > 0

\* mutant: the handler forgets connection.rollback()
insert_chunk_except_no_rollback(w, id) ==
    [w EXCEPT !.total_failed = @ + 1,
              !.raised = FALSE,
              !.ret = FALSE]

\* mutant: the handler also resets the since-last-commit counter
insert_chunk_except_reset(w, id) ==
    [rollback(w) EXCEPT !.total_failed = @ + 1,
                        !.insert_count = 0,
                        !.raised = FALSE,
                        !.ret = FALSE]

\* mutant: the failure is not counted
insert_chunk_except_uncounted(w, id) ==
    [rollback(w) EXCEPT !.raised = FALSE,
                        !.ret = FALSE]

\* the `except psycopg2.Error` handler of insert_chunk
insert_chunk_except(w, id) ==
    [rollback(w) EXCEPT !.total_failed = @ + 1,
                        !.raised = FALSE,
                        !.ret = FALSE]

\* the success path of insert_chunk after cursor.execute returned
insert_chunk_try(w, id, comOk) ==
    LET c == [w EXCEPT !.insert_count = @ + 1] IN
    IF commit_due(c.insert_count, batch_commit_size)
    THEN LET k == _commit(c, comOk) IN
         IF k.raised THEN k ELSE [k EXCEPT !.ret = TRUE]
    ELSE [c EXCEPT !.ret = TRUE]

\* DatabaseWriter.insert_chunk
insert_chunk(w, id, insOk, comOk) ==
    LET e == execute(w, id, insOk)
        t == IF e.raised THEN e ELSE insert_chunk_try(e, id, comOk)
        r == IF t.raised THEN insert_chunk_except(t, id) ELSE t
    IN  [r EXCEPT !.log = Append(@, Ev("return", id, r.ret))]

Install(w) ==
    /\ insert_count'   = w.insert_count
    /\ total_inserted' = w.total_inserted
    /\ total_failed'   = w.total_failed
    /\ pending'        = w.pending
    /\ committed'      = w.committed
    /\ log'            = w.log

\* -------------------------------------------------------- chunk generator
\* A text is a sequence of symbols.  The whitespace symbols are single
\* characters; a literal fragment of a label that contains no whitespace
\* ("metadata:", "[Post_id:", "---", ...) is written as one symbol, and the
\* texts read from the database are made of one-character symbols, so that
\* slicing the author counts characters.
SP == " "
NL == "\n"
TAB == "\t"
Whitespace == {SP, NL, TAB}

\* values of a dict entry: a str, None, or no such key
Str(t) == [k |-> "str", s |-> t]
None == [k |-> "None", s |-> <<>>]
Missing == [k |-> "missing", s |-> <<>>]

\* an int read from a numeric column, s its decimal digits
Number(t) == [k |-> "int", s |-> t]

\* dict.get(key, default)
get(d, key, default) == IF d[key] = Missing THEN default ELSE d[key]

\* dict.get(key): None when the key is absent
get_or_none(d, key) == get(d, key, None)

\* truthiness of a str, an int or None
truthy(v) == \/ v.k = "str" /\ v.s # <<>>
             \/ v.k = "int" /\ v.s # <<"0">>

\* "{v}" inside an f-string
format(v) == IF v.k = "None" THEN <<"None">> ELSE v.s

\* str.split(): the maximal runs of non-whitespace symbols, in order
split(text) ==
    LET IsWord(i) == text[i] \notin Whitespace
        starts == {i \in DOMAIN text :
                      IsWord(i) /\ (i = 1 \/ ~IsWord(i - 1))}
        EndOf(i) == CHOOSE j \in i..Len(text) :
                       /\ \A m \in i..j : IsWord(m)
                       /\ (j = Len(text) \/ ~IsWord(j + 1))
        Start(n) == CHOOSE i \in starts :
                       Cardinality({m \in starts : m <= i}) = n
    IN  [n \in 1..Cardinality(starts) |->
            SubSeq(text, Start(n), EndOf(Start(n)))]

\* sep.join(parts)
join(sep, parts) ==
    LET F[i \in 0..Len(parts)] ==
            IF i = 0 THEN <<>>
            ELSE IF i = 1 THEN parts[1]
            ELSE F[i - 1] \o sep \o parts[i]
    IN  F[Len(parts)]

\* seq[:n]
prefix(seq, n) ==
    IF n >= 0
    THEN SubSeq(seq, 1, IF n < Len(seq) THEN n ELSE Len(seq))
    ELSE SubSeq(seq, 1, IF Len(seq) + n > 0 THEN Len(seq) + n ELSE 0)

\* seq[1:]
rest(seq) == SubSeq(seq, 2, Len(seq))

\* ChunkGenerator.DELIMITER = "\n\n---\n\n"
DELIMITER == <<NL, NL, "---", NL, NL>>

\* mutant: the slice keeps one word too many
_truncate_to_words_off_by_one(text, max_words) ==
    IF text = <<>> THEN <<>>
    ELSE LET words == split(text) IN
         IF Len(words) <= max_words THEN text
         ELSE join(<<SP>>, prefix(words, max_words + 1))

\* mutant: the words are rejoined with single spaces even within the budget
_truncate_to_words_always_rejoin(text, max_words) ==
    IF text = <<>> THEN <<>>
    ELSE join(<<SP>>, prefix(split(text), max_words))

\* mutant: the kept words are rejoined with line breaks
_truncate_to_words_newlines(text, max_words) ==
    IF text = <<>> THEN <<>>
    ELSE LET words == split(text) IN
         IF Len(words) <= max_words THEN text
         ELSE join(<<NL>>, prefix(words, max_words))

\* ChunkGenerator._truncate_to_words
_truncate_to_words(text, max_words) ==
    IF text = <<>> THEN <<>>
    ELSE LET words == split(text) IN
         IF Len(words) <= max_words THEN text
         ELSE join(<<SP>>, prefix(words, max_words))

\* mutant: the author is written in full
metadata_section_full_author(p) ==
    LET author_prefix == IF truthy(get_or_none(p, "author"))
                         THEN get(p, "author", Str(<<>>)).s
                         ELSE <<>>
    IN  <<"metadata:", SP, "[Post_id:", SP>>
           \o format(get(p, "post_id", Str(<<>>)))
           \o <<SP, "|", SP, "Timestamp:", SP>>
           \o format(get(p, "timestamp", Str(<<>>)))
           \o <<SP, "|", SP, "Author:", SP>>
           \o author_prefix
           \o <<"]">>

\* section 1 of generate_chunk: the metadata line
metadata_section(p) ==
    LET author_prefix == IF truthy(get_or_none(p, "author"))
                         THEN prefix(get(p, "author", Str(<<>>)).s, 5)
                         ELSE <<>>
    IN  <<"metadata:", SP, "[Post_id:", SP>>
           \o format(get(p, "post_id", Str(<<>>)))
           \o <<SP, "|", SP, "Timestamp:", SP>>
           \o format(get(p, "timestamp", Str(<<>>)))
           \o <<SP, "|", SP, "Author:", SP>>
           \o author_prefix
           \o <<"]">>

\* mutant: the title line is emitted for every title that is a str
title_section_if_str(p) ==
    IF get_or_none(p, "title").k = "str"
    THEN << <<"Title:", SP>> \o format(get_or_none(p, "title")) >>
    ELSE <<>>

\* section 2: the title line
title_section(p) ==
    IF truthy(get_or_none(p, "title"))
    THEN << <<"Title:", SP>> \o format(get_or_none(p, "title")) >>
    ELSE <<>>

\* mutant: the question line is emitted only under a title
question_section_needs_title(p) ==
    IF truthy(get_or_none(p, "post_texts")) /\ truthy(get_or_none(p, "title"))
    THEN << <<"Question", SP, "(priority", SP, "1):", SP>>
              \o format(get_or_none(p, "post_texts")) >>
    ELSE <<>>

\* section 3: the question line
question_section(p) ==
    IF truthy(get_or_none(p, "post_texts"))
    THEN << <<"Question", SP, "(priority", SP, "1):", SP>>
              \o format(get_or_none(p, "post_texts")) >>
    ELSE <<>>

\* mutant: the important answer is the comment that sorts first by
\* (comment_priority, text_length)
important_answer_section_sorted(cs) ==
    IF Len(cs) > 0
    THEN LET Before(a, b) ==
                \/ a.comment_priority < b.comment_priority
                \/ /\ a.comment_priority = b.comment_priority
                   /\ a.text_length <= b.text_length
             best == CHOOSE i \in DOMAIN cs :
                        \A j \in DOMAIN cs :
                           Before(cs[i], cs[j]) /\ (Before(cs[j], cs[i]) => i <= j)
             first_comment == get(cs[best], "comment_texts", Str(<<>>))
         IN  IF truthy(first_comment)
             THEN << <<"Important", SP, "answer", SP, "(priority", SP, "2):",
                       SP>> \o format(first_comment) >>
             ELSE <<>>
    ELSE <<>>

\* mutant: the first comment that has a text is promoted
important_answer_section_promoted(cs) ==
    LET withText == SelectSeq(cs, LAMBDA c :
                       truthy(get(c, "comment_texts", Str(<<>>))))
        texts == [i \in DOMAIN withText |-> withText[i].comment_texts.s]
    IN
    IF texts # <<>>
    THEN << <<"Important", SP, "answer", SP, "(priority", SP, "2):", SP>>
              \o texts[1] >>
    ELSE <<>>

\* section 4: the important answer, from the first comment only
important_answer_section(cs) ==
    IF Len(cs) > 0
    THEN LET first_comment == get(cs[1], "comment_texts", Str(<<>>)) IN
         IF truthy(first_comment)
         THEN << <<"Important", SP, "answer", SP, "(priority", SP, "2):", SP>>
                   \o format(first_comment) >>
         ELSE <<>>
    ELSE <<>>

\* the non-empty texts of the remaining comments, in order
other_comments_texts(cs) ==
    LET F[i \in 0..Len(cs)] ==
            IF i = 0 THEN <<>>
            ELSE LET comment_text == get(cs[i], "comment_texts", Str(<<>>)) IN
                 IF truthy(comment_text) THEN Append(F[i - 1], comment_text.s)
                 ELSE F[i - 1]
    IN  F[Len(cs)]

\* section 5: the other comments
other_comments_section(cs) ==
    IF Len(cs) > 1 /\ other_comments_texts(rest(cs)) # <<>>
    THEN << <<"Other", SP, "comments", SP, "(priority", SP, "3):", SP>>
              \o join(DELIMITER, other_comments_texts(rest(cs))) >>
    ELSE <<>>

\* the list `components` of generate_chunk
components(p, cs) ==
    <<metadata_section(p)>> \o title_section(p) \o question_section(p)
       \o important_answer_section(cs) \o other_comments_section(cs)

\* mutant: the score counts the comments that have a text
generate_chunk_rendered_score(p, cs, size) ==
    [post_id          |-> get_or_none(p, "post_id"),
     timestamp        |-> get_or_none(p, "timestamp"),
     full_chunk       |-> _truncate_to_words(join(DELIMITER, components(p, cs)),
                                             size),
     engagement_score |-> Len(other_comments_texts(cs))]

\* ChunkGenerator.generate_chunk
generate_chunk(p, cs, size) ==
    [post_id          |-> get_or_none(p, "post_id"),
     timestamp        |-> get_or_none(p, "timestamp"),
     full_chunk       |-> _truncate_to_words(join(DELIMITER, components(p, cs)),
                                             size),
     engagement_score |-> Len(cs)]

\* generate_chunk raises: `post.get('author', '')[:5]` is a TypeError when the
\* author is truthy and not a str
generate_chunk_raises(p, cs) ==
    /\ truthy(get_or_none(p, "author"))
    /\ get(p, "author", Str(<<>>)).k # "str"

\* mutant: the loop stops at the first post whose assembly raised
break_after_error(i, n) == n + 1

\* `continue` in the except clause of generate_chunks_batch: the position of
\* the loop over n pairs after the pair at i raised
continue_after_error(i, n) == i + 1

\* ---- the inputs explored
MaxChunkSize == 31      \* largest word budget explored
MaxComments  == 2       \* longest comment list explored

PostIds    == {Str(<<"7">>)}
Timestamps == {None, Str(<<"d", SP, "t">>)}
Authors    == {Missing, None, Str(<<>>), Str(<<"J", "o">>),
               Str(<<"J", "o", "h", "n", "D", "o", "e">>)}
Titles     == {None, Str(<<>>), Str(<<SP, "T", SP, SP, "x", NL>>)}
PostTexts  == {None, Str(<<TAB, "Q", NL>>)}
CommentTexts == {None, Str(<<>>), Str(<<"A">>), Str(<<"b", SP, SP, "c", NL>>)}

Posts == [post_id : PostIds, timestamp : Timestamps, author : Authors,
          title : Titles, post_texts : PostTexts]

Comments == [comment_texts : CommentTexts]

CommentLists == UNION {[1..n -> Comments] : n \in 0..MaxComments}

NoPost == [post_id |-> Missing, timestamp |-> Missing, author |-> Missing,
           title |-> Missing, post_texts |-> Missing]

NoChunk == [post_id |-> None, timestamp |-> None, full_chunk |-> <<>>,
            engagement_score |-> -1]

GeneratorIdle ==
    /\ chunk_size = 1
    /\ post = NoPost
    /\ comments = <<>>
    /\ full_text = <<>>
    /\ result = NoChunk
    /\ gpc = "idle"

\* generate_chunks_batch is not running
BatchIdle ==
    /\ posts_with_comments = <<>>
    /\ bidx = 0
    /\ batch_chunks = <<>>
    /\ skipped = {}
    /\ bpc = "idle"

\* value of `response` before lambda_handler returns
NoResponse == [statusCode |-> 0, error |-> "", posts_processed |-> -1,
               chunks_created |-> -1, chunks_failed |-> -1,
               total_chunks |-> -1]

\* the handler is not running
HandlerIdle ==
    /\ hpc = "idle"
    /\ reader = "None"
    /\ db_reader = FALSE
    /\ db_writer = FALSE
    /\ posts = <<>>
    /\ pidx = 0
    /\ chunks_to_insert = <<>>
    /\ exc = ""
    /\ response = NoResponse
    /\ hlog = <<>>

\* ---------------------------------------------------------------- actions
\* DatabaseWriter.__init__
WriterInit ==
    /\ batch_commit_size \in 1..MaxCommitSize
    /\ connection = "None"
    /\ cursor = "None"
    /\ insert_count = 0
    /\ total_inserted = 0
    /\ total_failed = 0
    /\ pending = {}
    /\ committed = {}
    /\ log = <<>>
    /\ wpc = "constructed"
    /\ chunks = <<>>
    /\ idx = 0
    /\ success_count = 0
    /\ failed_count = 0
    /\ stats = NoStats
    /\ singles = 0

Init == WriterInit /\ GeneratorIdle /\ HandlerIdle /\ BatchIdle

\* DatabaseWriter.connect
connect ==
    /\ wpc = "constructed"
    /\ \E ok \in BOOLEAN :
          IF ok
          THEN /\ connection' = "open"
               /\ cursor' = "open"
               /\ wpc' = "ready"
          ELSE /\ wpc' = "connect_raised"
               /\ UNCHANGED <<connection, cursor>>
    /\ UNCHANGED <<batch_commit_size, insert_count, total_inserted, total_failed,
                   pending, committed, log, chunks, idx, success_count,
                   failed_count, stats, singles>>
    /\ UNCHANGED <<gvars, hvars, bvars>>

\* a direct call of insert_chunk; the k-th such call writes row -k
insert_chunk_call ==
    /\ wpc = "ready"
    /\ singles < MaxSingles
    /\ \E insOk \in BOOLEAN, comOk \in BOOLEAN :
          Install(insert_chunk(Writer, -(singles + 1), insOk, comOk))
    /\ singles' = singles + 1
    /\ UNCHANGED <<batch_commit_size, connection, cursor, wpc, chunks, idx,
                   success_count, failed_count, stats>>
    /\ UNCHANGED <<gvars, hvars, bvars>>

\* insert_chunks_batch, entry: the locals are initialised
insert_chunks_batch_enter ==
    /\ wpc = "ready"
    /\ \E n \in 0..MaxBatch : chunks' = [i \in 1..n |-> i]
    /\ success_count' = 0
    /\ failed_count' = 0
    /\ idx' = 1
    /\ wpc' = "loop"
    /\ UNCHANGED <<batch_commit_size, connection, cursor, insert_count,
                   total_inserted, total_failed, pending, committed, log,
                   stats, singles>>
    /\ UNCHANGED <<gvars, hvars, bvars>>

\* mutant: the loop walks the list backwards
chunk_at_reversed(cs, i) == cs[Len(cs) + 1 - i]

\* the chunk the loop of insert_chunks_batch visits in its i-th iteration
chunk_at(cs, i) == cs[i]

\* mutant: every call is tallied as a success
tally_all_success(counts, ret) == [counts EXCEPT !.success = @ + 1]

\* `if self.insert_chunk(chunk): success_count += 1 else: failed_count += 1`
tally(counts, ret) ==
    IF ret THEN [counts EXCEPT !.success = @ + 1]
           ELSE [counts EXCEPT !.failed = @ + 1]

\* insert_chunks_batch, one iteration of `for chunk in chunks`
insert_chunks_batch_iter ==
    /\ wpc = "loop"
    /\ idx <= Len(chunks)
    /\ \E insOk \in BOOLEAN, comOk \in BOOLEAN :
          LET r == insert_chunk(Writer, chunk_at(chunks, idx), insOk, comOk)
              t == tally([success |-> success_count, failed |-> failed_count],
                         r.ret)
          IN  /\ Install(r)
              /\ success_count' = t.success
              /\ failed_count' = t.failed
    /\ idx' = idx + 1
    /\ UNCHANGED <<batch_commit_size, connection, cursor, wpc, chunks, stats,
                   singles>>
    /\ UNCHANGED <<gvars, hvars, bvars>>

\* insert_chunks_batch, after the loop: the final commit and the result
insert_chunks_batch_finish ==
    /\ wpc = "loop"
    /\ idx > Len(chunks)
    /\ \E comOk \in BOOLEAN :
          LET r == IF final_commit_due(insert_count)
                   THEN _commit(Writer, comOk) ELSE Writer
          IN  /\ Install(r)
              /\ IF r.raised
                 THEN /\ wpc' = "batch_raised"
                      /\ stats' = stats
                 ELSE /\ wpc' = "returned"
                      /\ stats' = [total   |-> Len(chunks),
                                   success |-> success_count,
                                   failed  |-> failed_count]
    /\ UNCHANGED <<batch_commit_size, connection, cursor, chunks, idx,
                   success_count, failed_count, singles>>
    /\ UNCHANGED <<gvars, hvars, bvars>>

\* DatabaseWriter.disconnect
disconnect_body(from) ==
    /\ wpc \in from
    /\ \E comOk \in BOOLEAN :
          LET r == IF disconnect_commit_due(insert_count)
                   THEN _commit(Writer, comOk) ELSE Writer
          IN  IF r.raised
              THEN /\ Install(r)
                   /\ wpc' = "disconnect_raised"
                   /\ UNCHANGED <<connection, cursor>>
              ELSE /\ Install([r EXCEPT !.log =
                          @ \o (IF cursor # "None"
                                THEN <<Ev("cursor.close", 0, TRUE)>> ELSE <<>>)
                            \o (IF connection # "None"
                                THEN <<Ev("connection.close", 0, TRUE)>>
                                ELSE <<>>)])
                   /\ cursor' = IF cursor # "None" THEN "closed" ELSE cursor
                   /\ connection' = IF connection # "None" THEN "closed"
                                                           ELSE connection
                   /\ wpc' = "closed"
    /\ UNCHANGED <<batch_commit_size, chunks, idx, success_count, failed_count,
                   stats, singles>>

\* DatabaseWriter.disconnect called by a client of the writer
disconnect ==
    /\ disconnect_body({"ready", "returned", "batch_raised", "connect_raised"})
    /\ UNCHANGED <<gvars, hvars, bvars>>

Next ==
    \/ connect
    \/ insert_chunk_call
    \/ insert_chunks_batch_enter
    \/ insert_chunks_batch_iter
    \/ insert_chunks_batch_finish
    \/ disconnect

Spec == Init /\ [][Next]_vars

\* ------------------------------------------------------- lambda_handler
MaxPosts == 3           \* most posts get_all_posts returns

Digits == <<"1", "2", "3", "4", "5", "6", "7", "8", "9">>

\* the i-th row of `SELECT ... FROM posts ORDER BY post_id`
HandlerPost(i) ==
    [post_id |-> Str(<<Digits[i]>>), timestamp |-> None,
     author |-> Str(<<"J", "o">>), title |-> None,
     post_texts |-> Str(<<"Q">>)]

\* the comment lists get_comments_for_post returns
HandlerCommentLists == {<<>>, <<[comment_texts |-> Str(<<"A">>)]>>}

\* mutant: disconnect leaves the connection open
reader_disconnect_noop(r) == r

\* DatabaseReader.disconnect: closes the connection if there is one
reader_disconnect(r) == IF r = "None" THEN r ELSE "closed"

\* `if not db_reader.verify_tables_exist()`: TRUE when processing goes on
reader_tables_ok(exists) == exists

\* mutant: the handler ignores the writer's table check
writer_table_ok_ignored(exists) == TRUE

\* `if not db_writer.verify_table_exists()`: TRUE when processing goes on
writer_table_ok(exists) == exists

\* mutant: an empty result is processed like any other
no_posts_never(ps) == FALSE

\* `if not posts`
no_posts(ps) == ps = <<>>

\* the `try: db_writer.disconnect() except: pass` of the cleanup: where the
\* handler is after it, given that disconnect raised or not
cleanup_outcome(raised) == "returned"

\* the response of the `except Exception` handler
ErrorResponse(msg) == [NoResponse EXCEPT !.statusCode = 500, !.error = msg]

\* mutant: posts_processed reports the chunks that were written
success_response_written(ps, insert_stats) ==
    [NoResponse EXCEPT !.statusCode = 200,
                       !.posts_processed = insert_stats.success,
                       !.chunks_created = insert_stats.success,
                       !.chunks_failed = insert_stats.failed,
                       !.total_chunks = insert_stats.total]

\* step 9: the response of a completed run
success_response(ps, insert_stats) ==
    [NoResponse EXCEPT !.statusCode = 200,
                       !.posts_processed = Len(ps),
                       !.chunks_created = insert_stats.success,
                       !.chunks_failed = insert_stats.failed,
                       !.total_chunks = insert_stats.total]

\* mutant: the loop skips the post that raised, as batch mode does
on_post_error_skip(i) == [hpc |-> "process", pidx |-> i + 1]

\* a raise inside the loop over posts is not caught there: control leaves
\* the loop at post i for the `except Exception` clause
on_post_error(i) == [hpc |-> "except", pidx |-> i]

\* an invocation starts
InitHandler ==
    /\ WriterInit
    /\ chunk_size = MaxChunkSize
    /\ post = NoPost
    /\ comments = <<>>
    /\ full_text = <<>>
    /\ result = NoChunk
    /\ gpc = "idle"
    /\ hpc = "start"
    /\ reader = "None"
    /\ db_reader = FALSE
    /\ db_writer = FALSE
    /\ posts = <<>>
    /\ pidx = 0
    /\ chunks_to_insert = <<>>
    /\ exc = ""
    /\ response = NoResponse
    /\ hlog = <<>>
    /\ BatchIdle

\* step 1: load and validate the configuration
h_load_config ==
    /\ hpc = "start"
    /\ \E ok \in BOOLEAN :
          /\ hlog' = Append(hlog, Ev("config", 0, ok))
          /\ IF ok THEN hpc' = "reader_connect" /\ exc' = exc
                   ELSE hpc' = "except" /\ exc' = "config"
    /\ UNCHANGED <<reader, db_reader, db_writer, posts, pidx,
                   chunks_to_insert, response>>
    /\ UNCHANGED <<wvars, gvars, bvars>>

\* step 2: create the reader and connect it
h_reader_connect ==
    /\ hpc = "reader_connect"
    /\ db_reader' = TRUE
    /\ \E ok \in BOOLEAN :
          /\ hlog' = Append(hlog, Ev("r.connect", 0, ok))
          /\ IF ok THEN /\ reader' = "open"
                        /\ hpc' = "verify_tables"
                        /\ exc' = exc
                   ELSE /\ reader' = reader
                        /\ hpc' = "except"
                        /\ exc' = "r.connect"
    /\ UNCHANGED <<db_writer, posts, pidx, chunks_to_insert, response>>
    /\ UNCHANGED <<wvars, gvars, bvars>>

\* what a table check's query does: the table is there, it is not, or the
\* query raises psycopg2.Error, which the check catches and reports as False
CheckOutcomes == {"present", "missing", "raised"}

\* the events of a table check of the given name with the given outcome
check_events(name, out) ==
    <<Ev(name \o ".execute", 0, out # "raised"), Ev(name, 0, out = "present")>>

\* step 2, the reader's table check and its early return
h_verify_tables ==
    /\ hpc = "verify_tables"
    /\ \E out \in CheckOutcomes :
          /\ hlog' = hlog \o check_events("r.verify_tables_exist", out)
          /\ IF reader_tables_ok(out = "present")
             THEN hpc' = "get_posts" /\ response' = response
             ELSE /\ hpc' = "returned"
                  /\ response' =
                        ErrorResponse("Required database tables do not exist")
    /\ UNCHANGED <<reader, db_reader, db_writer, posts, pidx,
                   chunks_to_insert, exc>>
    /\ UNCHANGED <<wvars, gvars, bvars>>

\* step 3: read all posts; the early return when there are none
h_get_all_posts ==
    /\ hpc = "get_posts"
    /\ \/ /\ hlog' = Append(hlog, Ev("r.get_all_posts", 0, FALSE))
          /\ hpc' = "except"
          /\ exc' = "r.get_all_posts"
          /\ UNCHANGED <<reader, posts, pidx, chunks_to_insert, response>>
       \/ \E n \in 0..MaxPosts :
             LET ps == [i \in 1..n |-> HandlerPost(i)] IN
             /\ posts' = ps
             /\ exc' = exc
             /\ IF no_posts(ps)
                THEN /\ hlog' = hlog \o <<Ev("r.get_all_posts", 0, TRUE),
                                          Ev("r.disconnect", 0, TRUE)>>
                     /\ reader' = reader_disconnect(reader)
                     /\ response' = [NoResponse EXCEPT
                                        !.statusCode = 200,
                                        !.posts_processed = 0,
                                        !.chunks_created = 0]
                     /\ hpc' = "returned"
                     /\ UNCHANGED <<pidx, chunks_to_insert>>
                ELSE /\ hlog' = Append(hlog, Ev("r.get_all_posts", 0, TRUE))
                     /\ chunks_to_insert' = <<>>
                     /\ pidx' = 1
                     /\ hpc' = "process"
                     /\ UNCHANGED <<reader, response>>
    /\ UNCHANGED <<db_reader, db_writer>>
    /\ UNCHANGED <<wvars, gvars, bvars>>

\* step 5, one iteration: read the post's comments and build its chunk
h_process_post ==
    /\ hpc = "process"
    /\ pidx <= Len(posts)
    /\ \/ /\ hlog' = Append(hlog, Ev("r.get_comments_for_post", pidx, FALSE))
          /\ hpc' = on_post_error(pidx).hpc
          /\ pidx' = on_post_error(pidx).pidx
          /\ exc' = "r.get_comments_for_post"
          /\ UNCHANGED chunks_to_insert
       \/ /\ hlog' = hlog \o <<Ev("r.get_comments_for_post", pidx, TRUE),
                               Ev("generate_chunk", pidx, FALSE)>>
          /\ hpc' = on_post_error(pidx).hpc
          /\ pidx' = on_post_error(pidx).pidx
          /\ exc' = "generate_chunk"
          /\ UNCHANGED chunks_to_insert
       \/ \E cs \in HandlerCommentLists :
             /\ hlog' = hlog \o <<Ev("r.get_comments_for_post", pidx, TRUE),
                                  Ev("generate_chunk", pidx, TRUE)>>
             /\ chunks_to_insert' =
                   Append(chunks_to_insert,
                          generate_chunk(posts[pidx], cs, chunk_size))
             /\ pidx' = pidx + 1
             /\ UNCHANGED <<hpc, exc>>
    /\ UNCHANGED <<reader, db_reader, db_writer, posts, response>>
    /\ UNCHANGED <<wvars, gvars, bvars>>

\* after the loop: close the reader, forget it, create the writer
h_reader_done ==
    /\ hpc = "process"
    /\ pidx > Len(posts)
    /\ hlog' = Append(hlog, Ev("r.disconnect", 0, TRUE))
    /\ reader' = reader_disconnect(reader)
    /\ db_reader' = FALSE
    /\ db_writer' = TRUE
    /\ hpc' = "writer"
    /\ UNCHANGED <<posts, pidx, chunks_to_insert, exc, response>>
    /\ UNCHANGED <<wvars, gvars, bvars>>

\* step 6: db_writer.connect()
h_writer_connect ==
    /\ hpc = "writer"
    /\ connect

\* step 6, the writer's table check and its early return; step 7, the entry
\* of insert_chunks_batch(chunks_to_insert): row i is chunks_to_insert[i]
h_verify_and_insert ==
    /\ hpc = "writer"
    /\ wpc = "ready"
    /\ \E out \in CheckOutcomes :
          /\ hlog' = hlog \o check_events("w.verify_table_exists", out)
          /\ IF writer_table_ok(out = "present")
             THEN /\ chunks' = [i \in 1..Len(chunks_to_insert) |-> i]
                  /\ success_count' = 0
                  /\ failed_count' = 0
                  /\ idx' = 1
                  /\ wpc' = "loop"
                  /\ UNCHANGED <<hpc, response>>
             ELSE /\ hpc' = "returned"
                  /\ response' =
                        ErrorResponse("facebook_chunks table does not exist")
                  /\ UNCHANGED <<chunks, success_count, failed_count, idx,
                                 wpc>>
    /\ UNCHANGED <<batch_commit_size, connection, cursor, insert_count,
                   total_inserted, total_failed, pending, committed, log,
                   stats, singles>>
    /\ UNCHANGED <<reader, db_reader, db_writer, posts, pidx,
                   chunks_to_insert, exc>>
    /\ UNCHANGED <<gvars, bvars>>

\* step 7: the loop of insert_chunks_batch
h_insert_iter ==
    /\ hpc = "writer"
    /\ insert_chunks_batch_iter

\* step 7: the end of insert_chunks_batch
h_insert_finish ==
    /\ hpc = "writer"
    /\ insert_chunks_batch_finish

\* step 8: db_writer.disconnect()
h_writer_disconnect ==
    /\ hpc = "writer"
    /\ wpc = "returned"
    /\ disconnect

\* step 9: forget the writer and build the response
h_respond ==
    /\ hpc = "writer"
    /\ wpc = "closed"
    /\ db_writer' = FALSE
    /\ response' = success_response(posts, stats)
    /\ hpc' = "returned"
    /\ UNCHANGED <<reader, db_reader, posts, pidx, chunks_to_insert, exc,
                   hlog>>
    /\ UNCHANGED <<wvars, gvars, bvars>>

\* `except Exception as e` entered from a writer call that raised
h_except_writer ==
    /\ hpc = "writer"
    /\ wpc \in {"connect_raised", "batch_raised", "disconnect_raised"}
    /\ exc' = wpc
    /\ hpc' = "except"
    /\ UNCHANGED <<reader, db_reader, db_writer, posts, pidx,
                   chunks_to_insert, response, hlog>>
    /\ UNCHANGED <<wvars, gvars, bvars>>

\* cleanup: `if db_reader: try: db_reader.disconnect() except: pass`
h_cleanup_reader ==
    /\ hpc = "except"
    /\ IF db_reader
       THEN /\ reader' = reader_disconnect(reader)
            /\ hlog' = Append(hlog, Ev("r.disconnect", 0, TRUE))
       ELSE UNCHANGED <<reader, hlog>>
    /\ hpc' = "cleanup_writer"
    /\ UNCHANGED <<db_reader, db_writer, posts, pidx, chunks_to_insert, exc,
                   response>>
    /\ UNCHANGED <<wvars, gvars, bvars>>

\* cleanup: `if db_writer: try: db_writer.disconnect() except: pass`, then
\* the return of the `except Exception` handler
h_cleanup_writer ==
    /\ hpc = "cleanup_writer"
    /\ db_writer
    /\ disconnect_body({"connect_raised", "batch_raised", "disconnect_raised"})
    /\ hpc' = cleanup_outcome(wpc' = "disconnect_raised")
    /\ response' = ErrorResponse(exc)
    /\ UNCHANGED <<reader, db_reader, db_writer, posts, pidx,
                   chunks_to_insert, exc, hlog>>
    /\ UNCHANGED <<gvars, bvars>>

\* the return of the `except Exception` handler when no writer was created
h_return_error ==
    /\ hpc = "cleanup_writer"
    /\ ~db_writer
    /\ hpc' = "returned"
    /\ response' = ErrorResponse(exc)
    /\ UNCHANGED <<reader, db_reader, db_writer, posts, pidx,
                   chunks_to_insert, exc, hlog>>
    /\ UNCHANGED <<wvars, gvars, bvars>>

NextHandler ==
    \/ h_load_config
    \/ h_reader_connect
    \/ h_verify_tables
    \/ h_get_all_posts
    \/ h_process_post
    \/ h_reader_done
    \/ h_writer_connect
    \/ h_verify_and_insert
    \/ h_insert_iter
    \/ h_insert_finish
    \/ h_writer_disconnect
    \/ h_respond
    \/ h_except_writer
    \/ h_cleanup_reader
    \/ h_cleanup_writer
    \/ h_return_error

SpecHandler == InitHandler /\ [][NextHandler]_vars

\* ------------------------------------------------ generate_chunks_batch
MaxPairs == 3           \* longest posts_with_comments explored

\* authors a row can carry: text, NULL, or a number of a numeric column
BatchAuthors == {Str(<<"J", "o">>), None, Number(<<"0">>), Number(<<"4", "2">>)}

\* the pair at position i: its post_id tells the positions apart
BatchPairs(i) ==
    {<<[post_id |-> Str(<<Digits[i]>>), timestamp |-> None, author |-> a,
        title |-> None, post_texts |-> Str(<<"Q">>)], cs>> :
        a \in BatchAuthors, cs \in HandlerCommentLists}

BatchInputs ==
    UNION {{f \in [1..n -> UNION {BatchPairs(i) : i \in 1..n}] :
               \A i \in 1..n : f[i] \in BatchPairs(i)} : n \in 0..MaxPairs}

InitBatch ==
    /\ posts_with_comments \in BatchInputs
    /\ bidx = 1
    /\ batch_chunks = <<>>
    /\ skipped = {}
    /\ bpc = "loop"
    /\ WriterInit
    /\ batch_commit_size = 1
    /\ chunk_size = MaxChunkSize
    /\ post = NoPost
    /\ comments = <<>>
    /\ full_text = <<>>
    /\ result = NoChunk
    /\ gpc = "idle"
    /\ HandlerIdle

\* one iteration of `for post, comments in posts_with_comments`
generate_chunks_batch_iter ==
    /\ bpc = "loop"
    /\ bidx <= Len(posts_with_comments)
    /\ LET p  == posts_with_comments[bidx][1]
           cs == posts_with_comments[bidx][2]
       IN  IF generate_chunk_raises(p, cs)
           THEN /\ bidx' = continue_after_error(bidx,
                                                Len(posts_with_comments))
                /\ skipped' = skipped \cup {bidx}
                /\ UNCHANGED batch_chunks
           ELSE /\ batch_chunks' =
                      Append(batch_chunks, generate_chunk(p, cs, chunk_size))
                /\ bidx' = bidx + 1
                /\ UNCHANGED skipped
    /\ UNCHANGED <<posts_with_comments, bpc>>
    /\ UNCHANGED <<wvars, gvars, hvars>>

\* `return chunks`
generate_chunks_batch_return ==
    /\ bpc = "loop"
    /\ bidx > Len(posts_with_comments)
    /\ bpc' = "returned"
    /\ UNCHANGED <<posts_with_comments, bidx, batch_chunks, skipped>>
    /\ UNCHANGED <<wvars, gvars, hvars>>

NextBatch ==
    \/ generate_chunks_batch_iter
    \/ generate_chunks_batch_return

SpecBatch == InitBatch /\ [][NextBatch]_vars

\* ------------------------------------------- the generator's specification
\* ChunkGenerator.__init__ and the arguments of one generate_chunk call
InitChunk ==
    /\ chunk_size \in 1..MaxChunkSize
    /\ post \in Posts
    /\ comments \in CommentLists
    /\ full_text = <<>>
    /\ result = NoChunk
    /\ gpc = "start"
    /\ WriterInit
    /\ batch_commit_size = 1
    /\ HandlerIdle
    /\ BatchIdle

\* one call of generate_chunk
generate_chunk_call ==
    /\ gpc = "start"
    /\ full_text' = join(DELIMITER, components(post, comments))
    /\ result' = generate_chunk(post, comments, chunk_size)
    /\ gpc' = "done"
    /\ UNCHANGED <<chunk_size, post, comments>>
    /\ UNCHANGED <<wvars, hvars, bvars>>

NextChunk == generate_chunk_call

SpecChunk == InitChunk /\ [][NextChunk]_vars

\* number of whitespace-separated words of a text
WordCount(text) == Len(split(text))

\* C9: the word count of full_chunk never exceeds the word budget.
C9_WithinBudget ==
    gpc = "done" => WordCount(result.full_chunk) <= chunk_size

C9_Witness ==
    /\ gpc = "done"
    /\ Len(comments) = 2
    /\ WordCount(full_text) > chunk_size
    /\ chunk_size > 7
    /\ WordCount(result.full_chunk) = chunk_size

\* C10: a joined text within the budget is returned unchanged as full_chunk.
C10_UnchangedWithinBudget ==
    (gpc = "done" /\ WordCount(full_text) <= chunk_size) =>
        result.full_chunk = full_text

C10_Witness ==
    /\ gpc = "done"
    /\ WordCount(full_text) <= chunk_size
    /\ Len(components(post, comments)) = 5
    /\ result.full_chunk = full_text
    /\ join(<<SP>>, split(full_text)) # full_text

\* C11: a joined text over the budget is cut to exactly chunk_size words, the
\* first chunk_size words of the joined text in their order, separated by
\* single spaces and nothing else.
C11_TruncatedToFirstWords ==
    (gpc = "done" /\ WordCount(full_text) > chunk_size) =>
        LET out == result.full_chunk
            kept == split(out)
            all == split(full_text)
        IN  /\ Len(kept) = chunk_size
            /\ \A i \in 1..chunk_size : kept[i] = all[i]
            /\ \A i \in DOMAIN out :
                   out[i] \in Whitespace =>
                      /\ out[i] = SP
                      /\ 1 < i /\ i < Len(out)
                      /\ out[i - 1] \notin Whitespace
                      /\ out[i + 1] \notin Whitespace

C11_Witness ==
    /\ gpc = "done"
    /\ WordCount(full_text) > chunk_size
    /\ chunk_size >= 12
    /\ Len(components(post, comments)) = 5
    /\ \E i \in DOMAIN full_text : full_text[i] = "---"
    /\ \E i \in DOMAIN result.full_chunk : result.full_chunk[i] = "---"
    /\ \A i \in DOMAIN result.full_chunk : result.full_chunk[i] # NL

\* C12: engagement_score is the length of the comment list passed in, whether
\* or not the comments have a text and whether or not truncation cut them.
C12_EngagementScore ==
    gpc = "done" => result.engagement_score = Len(comments)

C12_Witness ==
    /\ gpc = "done"
    /\ Len(comments) = 2
    /\ ~truthy(comments[1].comment_texts)
    /\ truthy(comments[2].comment_texts)
    /\ WordCount(full_text) > chunk_size
    /\ \A i \in DOMAIN result.full_chunk : result.full_chunk[i] # "Other"
    /\ result.engagement_score = 2

\* ---- reading the sections back from a text
\* the first symbol of each section label, in the order of the sections
Heads == <<"metadata:", "Title:", "Question", "Important", "Other">>

\* number of symbols of the label that starts with head h
LabelLen(h) ==
    CASE h = "Title:" -> Len(<<"Title:", SP>>)
      [] h = "Question" -> Len(<<"Question", SP, "(priority", SP, "1):", SP>>)
      [] OTHER -> Len(<<"Important", SP, "answer", SP, "(priority", SP,
                        "2):", SP>>)

HeadPos(t, h) == {i \in DOMAIN t : t[i] = h}

HasSection(t, h) == HeadPos(t, h) # {}

PosOf(t, h) == CHOOSE i \in HeadPos(t, h) : TRUE

\* position i is the start of the text or comes right after a delimiter
StartsSection(t, i) ==
    \/ i = 1
    \/ i > Len(DELIMITER) /\ SubSeq(t, i - Len(DELIMITER), i - 1) = DELIMITER

\* the last position of the section that starts at position i
SectionEnd(t, i) ==
    LET later == {j \in DOMAIN t : /\ j > i
                                   /\ \E k \in DOMAIN Heads : t[j] = Heads[k]
                                   /\ StartsSection(t, j)}
    IN  IF later = {} THEN Len(t)
        ELSE (CHOOSE j \in later : \A m \in later : j <= m)
                - Len(DELIMITER) - 1

\* the text without the section that starts with head h
Without(t, h) ==
    IF ~HasSection(t, h) THEN t
    ELSE LET i == PosOf(t, h) IN
         SubSeq(t, 1, i - Len(DELIMITER) - 1)
            \o SubSeq(t, SectionEnd(t, i) + 1, Len(t))

\* the untruncated text of a post and a comment list
FullText(p, cs) == join(DELIMITER, components(p, cs))

\* C13: in the untruncated text the metadata section is present and first, the
\* sections that are present come in the order metadata, title, question,
\* important answer, other comments, and no label stands before an empty body.
C13_SectionOrder ==
    gpc = "done" =>
        LET t == full_text IN
        /\ HeadPos(t, "metadata:") = {1}
        /\ \A k \in DOMAIN Heads :
              /\ Cardinality(HeadPos(t, Heads[k])) <= 1
              /\ \A i \in HeadPos(t, Heads[k]) : StartsSection(t, i)
        /\ \A j, k \in DOMAIN Heads :
              (j < k /\ HasSection(t, Heads[j]) /\ HasSection(t, Heads[k]))
                 => PosOf(t, Heads[j]) < PosOf(t, Heads[k])
        /\ \A k \in 2..Len(Heads) :
              HasSection(t, Heads[k]) =>
                 LET b == PosOf(t, Heads[k]) + LabelLen(Heads[k]) IN
                 /\ b <= Len(t)
                 /\ (b + Len(DELIMITER) - 1 <= Len(t)) =>
                       SubSeq(t, b, b + Len(DELIMITER) - 1) # DELIMITER

C13_Witness ==
    /\ gpc = "done"
    /\ \A k \in DOMAIN Heads : HasSection(full_text, Heads[k])
    /\ post.author = Missing /\ post.timestamp = None

\* C14: a section is present iff its own source is truthy: title, question;
\* no comments give neither comment section, one comment gives no
\* other-comments section; taking one source away removes exactly its section
\* and leaves the rest of the text as it was.
C14_SectionPresence ==
    gpc = "done" =>
        LET t == full_text IN
        /\ HasSection(t, "Title:") <=> truthy(post.title)
        /\ HasSection(t, "Question") <=> truthy(post.post_texts)
        /\ comments = <<>> =>
              ~HasSection(t, "Important") /\ ~HasSection(t, "Other")
        /\ Len(comments) = 1 =>
              /\ ~HasSection(t, "Other")
              /\ HasSection(t, "Important")
                    <=> truthy(comments[1].comment_texts)
        /\ \A absent \in {None, Missing, Str(<<>>)} :
              /\ Without(t, "Title:") =
                    FullText([post EXCEPT !.title = absent], comments)
              /\ Without(t, "Question") =
                    FullText([post EXCEPT !.post_texts = absent], comments)
        /\ Without(Without(t, "Other"), "Important") = FullText(post, <<>>)

C14_Witness ==
    /\ gpc = "done"
    /\ \A k \in DOMAIN Heads : HasSection(full_text, Heads[k])
    /\ Without(full_text, "Question") # full_text
    /\ HasSection(Without(full_text, "Question"), "Important")
    /\ ~HasSection(Without(full_text, "Question"), "Question")

\* the text between "Author: " and the closing bracket of the metadata line
AuthorField(t) ==
    LET a == PosOf(t, "Author:")
        c == CHOOSE j \in (a + 1)..Len(t) :
                /\ t[j] = "]"
                /\ \A m \in (a + 1)..(j - 1) : t[m] # "]"
    IN  SubSeq(t, a + 2, c - 1)

\* text w occurs in text t as a run of consecutive symbols
Occurs(w, t) ==
    \E i \in 1..(Len(t) - Len(w) + 1) : SubSeq(t, i, i + Len(w) - 1) = w

\* C15: the Author field is the first 5 characters of a non-empty author (all
\* of it when shorter), empty when the author is missing, None or empty, and
\* an author of more than 5 characters is never written in full.
C15_AuthorPrefix ==
    gpc = "done" =>
        LET f == AuthorField(full_text)
            a == post.author
        IN  /\ truthy(a) =>
                  /\ Len(a.s) >= 5 => (Len(f) = 5 /\ \A i \in 1..5 : f[i] = a.s[i])
                  /\ Len(a.s) < 5 => f = a.s
            /\ a \in {Missing, None, Str(<<>>)} => f = <<>>
            /\ (truthy(a) /\ Len(a.s) > 5) =>
                  ~Occurs(a.s, SubSeq(full_text, 1,
                                      SectionEnd(full_text, 1)))

C15_Witness ==
    /\ gpc = "done"
    /\ post.author = Str(<<"J", "o", "h", "n", "D", "o", "e">>)
    /\ AuthorField(full_text) = <<"J", "o", "h", "n", "D">>

\* ---- comments that carry their sort keys, in any order
MaxPriority == 2        \* largest comment_priority explored

RankedComments ==
    {[comment_texts |-> t, comment_priority |-> pr, text_length |-> Len(t.s)] :
        t \in CommentTexts \cup {Missing}, pr \in 1..MaxPriority}

RankedLists == UNION {[1..n -> RankedComments] : n \in 0..(MaxComments + 1)}

\* one generate_chunk call on a comment list in arbitrary order
InitOrder ==
    /\ chunk_size \in {1, MaxChunkSize}
    /\ post \in {q \in Posts : q.author = None /\ q.title = None
                               /\ q.timestamp = None}
    /\ comments \in RankedLists
    /\ full_text = <<>>
    /\ result = NoChunk
    /\ gpc = "start"
    /\ WriterInit
    /\ batch_commit_size = 1
    /\ HandlerIdle
    /\ BatchIdle

SpecOrder == InitOrder /\ [][NextChunk]_vars

\* the body of the section that starts with head h
SectionBody(t, h) ==
    SubSeq(t, PosOf(t, h) + LabelLen(h), SectionEnd(t, PosOf(t, h)))

\* the non-empty texts of comments[1:], in the order they were passed in
LaterTexts(cs) ==
    LET r == SelectSeq(SubSeq(cs, 2, Len(cs)),
                       LAMBDA c : truthy(c.comment_texts))
    IN  [i \in DOMAIN r |-> r[i].comment_texts.s]

\* C16: the comments are never reordered: the important answer is the text of
\* comments[0] whatever the priorities and lengths are, and the other-comments
\* section lists the non-empty texts of comments[1:] in the order passed in.
C16_NoReordering ==
    gpc = "done" =>
        LET t == full_text IN
        /\ HasSection(t, "Important") <=>
              (comments # <<>> /\ truthy(comments[1].comment_texts))
        /\ HasSection(t, "Important") =>
              SectionBody(t, "Important") = comments[1].comment_texts.s
        /\ HasSection(t, "Other") <=> LaterTexts(comments) # <<>>
        /\ HasSection(t, "Other") =>
              SectionBody(t, "Other") = join(DELIMITER, LaterTexts(comments))

C16_Witness ==
    /\ gpc = "done"
    /\ Len(comments) = 3
    /\ comments[1].comment_priority > comments[2].comment_priority
    /\ comments[2].comment_priority = comments[3].comment_priority
    /\ comments[2].text_length > comments[3].text_length
    /\ truthy(comments[1].comment_texts)
    /\ truthy(comments[3].comment_texts)
    /\ SectionBody(full_text, "Important") = comments[1].comment_texts.s
    /\ SectionBody(full_text, "Other") =
          comments[2].comment_texts.s \o DELIMITER \o comments[3].comment_texts.s

\* ------------------------------------------------- history of a behaviour
\* the events the current step appends to the log
NewEvents == SubSeq(log', Len(log) + 1, Len(log'))

\* the write-port calls of a log, in order
PortCalls(l) == SelectSeq(l, LAMBDA e : e.ev \in {"execute", "commit"})

Commits(l) == SelectSeq(l, LAMBDA e : e.ev = "commit")

\* the rows of the batch whose insert was attempted, in order of attempt
BatchAttempts(l) == SelectSeq(l, LAMBDA e : e.ev = "execute" /\ e.id > 0)

\* rows for which insert_chunk returned v
Returned(l, v) == {l[i].id : i \in {j \in DOMAIN l :
                                      l[j].ev = "return" /\ l[j].ok = v}}

NoFailure(l) == \A i \in DOMAIN l : l[i].ok

NoCommitFailure(l) == \A i \in DOMAIN l : l[i].ev = "commit" => l[i].ok

\* number of successful inserts after the last successful commit
RECURSIVE OkSinceCommit(_)
OkSinceCommit(l) ==
    IF l = <<>> THEN 0
    ELSE LET e == l[Len(l)]
             h == SubSeq(l, 1, Len(l) - 1)
         IN  IF e.ev = "commit" /\ e.ok THEN 0
             ELSE IF e.ev = "execute" /\ e.ok THEN OkSinceCommit(h) + 1
             ELSE OkSinceCommit(h)

\* the step is a call of insert_chunk (direct or from the batch loop)
InsertChunkStep == NewEvents # <<>> /\ NewEvents[1].ev = "execute"

\* the step is a call of insert_chunk whose insert failed
InsertFailedStep == InsertChunkStep /\ ~NewEvents[1].ok

\* the step appends a commit attempt
CommitIssued == \E i \in DOMAIN NewEvents : NewEvents[i].ev = "commit"

\* ----------------------------------------------------------------- claims

\* C1 (as stated): when insert_chunks_batch returns, every record of the batch
\* whose insert_chunk call returned True is durably committed, none is pending
\* and none was discarded by a later record's rollback.
C1_EverySuccessCommitted ==
    wpc = "returned" =>
        /\ pending = {}
        /\ \A id \in Returned(log, TRUE) : id > 0 => id \in committed

\* C2: a failed insert is rolled back, insert_chunk returns False, the rows
\* committed before stay committed, and the loop of insert_chunks_batch goes
\* on to the next record; when the loop is left every record was attempted.
C2_FailureIsolated ==
    /\ [][InsertFailedStep =>
            /\ Len(NewEvents) = 3
            /\ NewEvents[2].ev = "rollback"
            /\ NewEvents[3] = Ev("return", NewEvents[1].id, FALSE)
            /\ pending' = {}
            /\ committed' = committed
            /\ (wpc = "loop" => wpc' = "loop" /\ idx' = idx + 1)]_vars
    /\ [](wpc \in {"returned", "batch_raised"} =>
            \A i \in 1..Len(chunks) :
               \E j \in DOMAIN log :
                  log[j].ev = "execute" /\ log[j].id = chunks[i])

C2_Witness ==
    /\ wpc = "returned"
    /\ \E i, j, k \in DOMAIN log :
          /\ i < j /\ j < k
          /\ log[i] = Ev("commit", 0, TRUE)
          /\ log[j].ev = "execute" /\ ~log[j].ok /\ log[j].id > 0
          /\ log[k].ev = "execute" /\ log[k].id > log[j].id
    /\ committed # {}

\* the calls a fresh writer makes for n records when nothing fails: a commit
\* right after every size-th insert and a last one iff size does not divide n
ExpectedCalls(n, size) ==
    LET F[i \in 0..n] ==
            IF i = 0 THEN <<>>
            ELSE F[i - 1] \o <<Ev("execute", i, TRUE)>>
                          \o (IF i % size = 0 THEN <<Ev("commit", 0, TRUE)>>
                                              ELSE <<>>)
    IN  F[n] \o (IF n % size # 0 THEN <<Ev("commit", 0, TRUE)>> ELSE <<>>)

CeilDiv(n, size) == (n + size - 1) \div size

\* C3: a fresh writer whose inserts and commits all succeed commits exactly
\* after the N-th, 2N-th, ... record and once more at the end iff N does not
\* divide the batch length: ceil(len/N) commits, none for an empty batch.
C3_CommitPositions ==
    (wpc = "returned" /\ singles = 0 /\ NoFailure(log)) =>
        /\ PortCalls(log) = ExpectedCalls(Len(chunks), batch_commit_size)
        /\ Len(Commits(log)) = CeilDiv(Len(chunks), batch_commit_size)

C3_Witness ==
    /\ wpc = "returned" /\ singles = 0 /\ NoFailure(log)
    /\ Len(chunks) = 5 /\ batch_commit_size = 2
    /\ Len(Commits(log)) = 3

\* C4: the since-last-commit counter counts successful inserts only: a failed
\* insert leaves it unchanged, a checkpoint commit is issued by an insert_chunk
\* call exactly when the successful inserts since the last commit reach N, and
\* a batch with one failed record returns success = total - 1, failed = 1 and
\* still issues the final commit for what remains.
C4_CheckpointsCountSuccesses ==
    /\ [](insert_count = OkSinceCommit(log))
    /\ [][InsertFailedStep => insert_count' = insert_count]_vars
    /\ [][InsertChunkStep =>
            /\ CommitIssued <=>
                  (NewEvents[1].ok /\
                   OkSinceCommit(log) + 1 >= batch_commit_size)
            /\ (CommitIssued /\ NoCommitFailure(log)) =>
                   OkSinceCommit(log) + 1 = batch_commit_size]_vars
    /\ [][(wpc = "loop" /\ wpc' # "loop" /\ insert_count > 0) =>
             (NewEvents # <<>> /\ NewEvents[1].ev = "commit")]_vars
    /\ [](( /\ wpc = "returned"
            /\ NoCommitFailure(log)
            /\ Cardinality({j \in DOMAIN log : /\ log[j].ev = "execute"
                                               /\ log[j].id > 0
                                               /\ ~log[j].ok}) = 1) =>
             /\ stats.success = stats.total - 1
             /\ stats.failed = 1)

C4_Witness ==
    /\ wpc = "returned"
    /\ batch_commit_size = 2 /\ Len(chunks) = 4
    /\ NoCommitFailure(log)
    /\ stats.failed = 1 /\ stats.success = 3
    /\ \E j \in DOMAIN log : log[j] = Ev("execute", 2, FALSE)
    /\ Len(Commits(log)) = 2
    /\ log[Len(log)] = Ev("commit", 0, TRUE)

\* the step is a call of disconnect
DisconnectStep == wpc' \in {"closed", "disconnect_raised"} /\ wpc' # wpc

\* C5: disconnect commits first, before closing the cursor and the connection,
\* when the since-last-commit counter is > 0; with the counter at 0, as right
\* after insert_chunks_batch returned, it issues no commit.
C5_DisconnectCommitsFirst ==
    /\ [][DisconnectStep =>
            /\ insert_count > 0 =>
                  /\ NewEvents # <<>>
                  /\ NewEvents[1].ev = "commit"
                  /\ \A i \in DOMAIN NewEvents :
                        NewEvents[i].ev = "commit" => i = 1
            /\ insert_count = 0 => ~CommitIssued
            /\ wpc = "returned" => ~CommitIssued]_vars

C5_Witness ==
    /\ wpc = "closed"
    /\ stats = NoStats
    /\ Len(log) >= 3
    /\ SubSeq(log, Len(log) - 2, Len(log)) =
          <<Ev("commit", 0, TRUE), Ev("cursor.close", 0, TRUE),
            Ev("connection.close", 0, TRUE)>>
    /\ committed # {}

\* C6: the result of insert_chunks_batch has total = len(records), success =
\* number of insert_chunk calls that returned True, failed = number that
\* returned False, and success + failed = total.
C6_StatsTally ==
    wpc = "returned" =>
        /\ stats.total = Len(chunks)
        /\ stats.success =
              Cardinality({id \in Returned(log, TRUE) : id > 0})
        /\ stats.failed =
              Cardinality({id \in Returned(log, FALSE) : id > 0})
        /\ stats.success + stats.failed = stats.total

C6_Witness ==
    /\ wpc = "returned"
    /\ stats.success >= 2
    /\ stats.failed >= 2

\* C7: the inserts are attempted in the order of the input list, each record
\* exactly once and none again after a failure.
C7_InputOrder ==
    wpc \in {"loop", "returned", "batch_raised"} =>
        /\ Len(BatchAttempts(log)) = idx - 1
        /\ \A i \in 1..(idx - 1) : BatchAttempts(log)[i].id = chunks[i]
        /\ wpc # "loop" => idx - 1 = Len(chunks)

C7_Witness ==
    /\ wpc = "returned"
    /\ Len(chunks) >= 3
    /\ \E j \in DOMAIN log : log[j] = Ev("execute", 2, FALSE)
    /\ BatchAttempts(log)[3].id = 3

\* C8 (as stated): whenever insert_chunk has returned, 0 <= insert_count < N.
C8_CounterBelowThreshold ==
    (log # <<>> /\ log[Len(log)].ev = "return") =>
        (0 <= insert_count /\ insert_count < batch_commit_size)

\* ---------------------------------------------- claims on lambda_handler
\* the events one step appends to the handler's history
NewHEvents == SubSeq(hlog', Len(hlog) + 1, Len(hlog'))

\* the calls on the read port
ReadPortEvents ==
    {"r.connect", "r.verify_tables_exist.execute", "r.verify_tables_exist",
     "r.get_all_posts", "r.get_comments_for_post", "r.disconnect"}

ReadCalls(l) == SelectSeq(l, LAMBDA e : e.ev \in ReadPortEvents)

\* the posts whose comments were read, in order of reading
CommentsRead(l) ==
    SelectSeq(l, LAMBDA e : e.ev = "r.get_comments_for_post" /\ e.ok)

\* the step in which db_writer.connect() is called
WriterConnectStep == wpc = "constructed" /\ wpc' # "constructed"

\* C17: the writer connects only after all posts and the comments of each
\* were read and the reader was disconnected; no read-port call happens once
\* the writer has connected; no insert is issued while the reader is open.
C17_ReadBeforeWrite ==
    /\ [][WriterConnectStep =>
             /\ reader = "closed"
             /\ hlog[Len(hlog)].ev = "r.disconnect"
             /\ \E i \in DOMAIN hlog :
                   hlog[i].ev = "r.get_all_posts" /\ hlog[i].ok
             /\ Len(CommentsRead(hlog)) = Len(posts)
             /\ \A i \in 1..Len(posts) : CommentsRead(hlog)[i].id = i
             /\ Len(chunks_to_insert) = Len(posts)]_vars
    /\ [][ReadCalls(NewHEvents) # <<>> =>
             wpc = "constructed" /\ wpc' = "constructed"]_vars
    /\ [](reader = "open" => log = <<>> /\ connection = "None")

C17_Witness ==
    /\ hpc = "returned"
    /\ response.statusCode = 200
    /\ Len(posts) >= 2
    /\ stats.success >= 2
    /\ reader = "closed"
    /\ connection = "closed"

\* a table check of the given name reported a missing table
ReportedMissing(name) ==
    \E i \in DOMAIN hlog : hlog[i].ev = name /\ ~hlog[i].ok

\* C18: once the reader's or the writer's table check has reported a missing
\* table, the handler has returned status 500 with an error message, and no
\* insert and no commit was issued in the invocation.
C18_MissingTableAborts ==
    (ReportedMissing("r.verify_tables_exist")
        \/ ReportedMissing("w.verify_table_exists")) =>
       /\ hpc = "returned"
       /\ response.statusCode = 500
       /\ response.error # ""
       /\ PortCalls(log) = <<>>
       /\ pending = {}
       /\ committed = {}

C18_Witness ==
    /\ ReportedMissing("w.verify_table_exists")
    /\ Len(chunks_to_insert) >= 2
    /\ connection = "open"
    /\ hpc = "returned"

\* get_all_posts returned
PostsRead ==
    \E i \in DOMAIN hlog : hlog[i].ev = "r.get_all_posts" /\ hlog[i].ok

\* C19: when get_all_posts returns no posts the handler returns status 200
\* with posts_processed = 0 and chunks_created = 0, the reader is
\* disconnected, and no writer is created or connected, so that no insert and
\* no commit is issued.
C19_NoPostsShortCircuit ==
    (PostsRead /\ posts = <<>>) =>
       /\ hpc = "returned"
       /\ response.statusCode = 200
       /\ response.error = ""
       /\ response.posts_processed = 0
       /\ response.chunks_created = 0
       /\ reader = "closed"
       /\ hlog[Len(hlog)].ev = "r.disconnect"
       /\ ~db_writer
       /\ wpc = "constructed"
       /\ connection = "None"
       /\ log = <<>>

C19_Witness ==
    /\ PostsRead
    /\ posts = <<>>
    /\ hpc = "returned"
    /\ response.statusCode = 200
    /\ reader = "closed"

\* the port operations whose exception reaches the handler's `except`
PortErrors ==
    {"r.connect", "r.get_all_posts", "r.get_comments_for_post",
     "connect_raised", "batch_raised", "disconnect_raised"}

\* a port operation raised and the exception reached the handler
RaisedToHandler == exc \in PortErrors

\* the query of a table check raised
CheckRaised ==
    \E i \in DOMAIN hlog :
       /\ hlog[i].ev \in {"r.verify_tables_exist.execute",
                          "w.verify_table_exists.execute"}
       /\ ~hlog[i].ok

\* no connection is held without an attempt to disconnect it
Released ==
    /\ reader # "open"
    /\ connection = "open" => wpc = "disconnect_raised"

\* what the handler has done when it returns after a raise
ErrorOutcome(raised) ==
    /\ hpc # "propagated"
    /\ hpc = "returned" => response.statusCode \in {200, 500}
    /\ (hpc = "returned" /\ raised) =>
          /\ response.statusCode = 500
          /\ response.error # ""
          /\ exc # "" => response.error = exc
          /\ Released

\* C20: when a port operation raises (connect, table check, read, the final
\* commit of the batch, disconnect) the handler does not propagate the
\* exception: it attempts to disconnect every connection it still holds and
\* returns status 500 with the error message; the status is 200 or 500.
C20_ErrorsReturn500 == ErrorOutcome(RaisedToHandler \/ CheckRaised)

\* ------------------------------------------ claims on generate_chunks_batch
\* the positions of the input whose assembly raises
FailingPairs ==
    {i \in DOMAIN posts_with_comments :
        generate_chunk_raises(posts_with_comments[i][1],
                              posts_with_comments[i][2])}

\* the i-th position of the input whose assembly does not raise
RECURSIVE NthGood(_)
NthGood(i) ==
    LET from == IF i = 1 THEN 0 ELSE NthGood(i - 1)
    IN  CHOOSE j \in (DOMAIN posts_with_comments) \ FailingPairs :
           /\ j > from
           /\ \A m \in (from + 1)..(j - 1) : m \in FailingPairs

\* C21: generate_chunks_batch returns for every input, and it returns in
\* input order exactly the chunks of the posts whose assembly did not raise,
\* len(input) minus the number of failing posts in all.
C21_BatchSkipsFailures ==
    /\ bpc = "loop" => bidx <= Len(posts_with_comments) + 1
    /\ bpc = "returned" =>
          /\ skipped = FailingPairs
          /\ Len(batch_chunks) =
                Len(posts_with_comments) - Cardinality(FailingPairs)
          /\ \A i \in DOMAIN batch_chunks :
                batch_chunks[i] =
                   generate_chunk(posts_with_comments[NthGood(i)][1],
                                  posts_with_comments[NthGood(i)][2],
                                  chunk_size)

C21_Witness ==
    /\ bpc = "returned"
    /\ Len(posts_with_comments) = 3
    /\ FailingPairs = {2}
    /\ Len(batch_chunks) = 2
    /\ batch_chunks[2].post_id = Str(<<"3">>)

\* ------------------------------------------------ claims on generate_chunk
\* C22: when the text of comments[0] is empty or missing there is no
\* important-answer section even if later comments have a text: no later
\* comment is promoted, and the non-empty later texts make up the
\* other-comments section and appear nowhere else.
C22_NoPromotion ==
    (gpc = "done" /\ comments # <<>>
        /\ ~truthy(get(comments[1], "comment_texts", Str(<<>>)))) =>
        LET t == full_text IN
        /\ ~HasSection(t, "Important")
        /\ HasSection(t, "Other") <=> LaterTexts(comments) # <<>>
        /\ HasSection(t, "Other") =>
              SectionBody(t, "Other") = join(DELIMITER, LaterTexts(comments))
        /\ Without(t, "Other") = FullText(post, <<>>)

C22_Witness ==
    /\ gpc = "done"
    /\ Len(comments) = 3
    /\ comments[1].comment_texts = Missing
    /\ comments[2].comment_texts = Str(<<>>)
    /\ truthy(comments[3].comment_texts)
    /\ HasSection(full_text, "Other")
    /\ HasSection(full_text, "Question")

\* --------------------------------------------- claims on DatabaseWriter
\* C23 (as stated): at every point of the writer's lifetime total_inserted is
\* the number of rows durably committed by the writer.
C23_TotalInsertedIsCommitted == total_inserted = Cardinality(committed)

\* the step is a call of insert_chunk whose insert succeeded and whose
\* checkpoint commit failed
CheckpointFailedStep ==
    /\ InsertChunkStep
    /\ NewEvents[1].ok
    /\ \E i \in DOMAIN NewEvents : NewEvents[i].ev = "commit" /\ ~NewEvents[i].ok

\* C24: when the checkpoint commit inside insert_chunk fails, the call returns
\* False and counts as a failed record although its insert succeeded, the
\* since-last-commit counter keeps the increment, total_inserted does not
\* grow, and the loop of insert_chunks_batch goes on to the next record.
C24_FailedCheckpoint ==
    [][CheckpointFailedStep =>
          /\ NewEvents[2] = Ev("commit", 0, FALSE)
          /\ NewEvents[Len(NewEvents)] = Ev("return", NewEvents[1].id, FALSE)
          /\ total_failed' = total_failed + 1
          /\ insert_count' = insert_count + 1
          /\ insert_count' >= batch_commit_size
          /\ total_inserted' = total_inserted
          /\ pending' = {}
          /\ committed' = committed
          /\ wpc = "loop" =>
                /\ wpc' = "loop"
                /\ idx' = idx + 1
                /\ failed_count' = failed_count + 1
                /\ success_count' = success_count]_vars

C24_Witness ==
    /\ wpc = "returned"
    /\ stats.total >= 3
    /\ \E j \in DOMAIN log :
          /\ j > 1
          /\ log[j] = Ev("commit", 0, FALSE)
          /\ log[j - 1].ev = "execute" /\ log[j - 1].ok /\ log[j - 1].id = 1
          /\ \E k \in DOMAIN log :
                k > j /\ log[k].ev = "execute" /\ log[k].id = 2
    /\ stats.failed >= 1

\* C25: a failed insert in insert_chunk adds 1 to total_failed and rolls the
\* open transaction back, and changes nothing else of the writer: insert_count
\* and total_inserted, the committed rows, the connection and the commit
\* threshold stay as they were.
C25_FailedInsertFrame ==
    [][InsertFailedStep =>
          /\ total_failed' = total_failed + 1
          /\ pending' = {}
          /\ \E i \in DOMAIN NewEvents : NewEvents[i].ev = "rollback"
          /\ \A i \in DOMAIN NewEvents : NewEvents[i].ev # "commit"
          /\ insert_count' = insert_count
          /\ total_inserted' = total_inserted
          /\ committed' = committed
          /\ UNCHANGED <<connection, cursor, batch_commit_size>>]_vars

C25_Witness ==
    /\ wpc = "loop"
    /\ log # <<>>
    /\ log[Len(log)] = Ev("return", 2, FALSE)
    /\ \E j \in DOMAIN log : log[j] = Ev("execute", 1, TRUE)
    /\ \E j \in DOMAIN log : log[j] = Ev("execute", 2, FALSE)
    /\ insert_count = 1
    /\ total_failed = 1
    /\ total_inserted = 0
    /\ pending = {}

\* --------------------------------------- further claims on lambda_handler
\* C26 (as stated): whenever lambda_handler has returned, with status 200 or
\* 500, every reader or writer connection opened in the invocation is closed.
C26_ConnectionsClosed ==
    hpc = "returned" => (reader # "open" /\ connection # "open")

\* lambda_handler returned its full success response
FullSuccess ==
    hpc = "returned" /\ response.statusCode = 200 /\ posts # <<>>

\* C27: when lambda_handler returns its full success response, one chunk was
\* built per post, in the order of get_all_posts: total_chunks =
\* posts_processed = the number of posts read, and chunks_created +
\* chunks_failed = total_chunks.
C27_OneChunkPerPost ==
    FullSuccess =>
       /\ Len(chunks_to_insert) = Len(posts)
       /\ \A i \in DOMAIN posts :
             /\ chunks_to_insert[i].post_id = posts[i].post_id
             /\ \E cs \in HandlerCommentLists :
                   chunks_to_insert[i] =
                      generate_chunk(posts[i], cs, chunk_size)
       /\ \A i \in DOMAIN posts : posts[i] = HandlerPost(i)
       /\ chunks = [i \in DOMAIN chunks_to_insert |-> i]
       /\ response.total_chunks = Len(posts)
       /\ response.posts_processed = Len(posts)
       /\ response.chunks_created >= 0
       /\ response.chunks_failed >= 0
       /\ response.chunks_created + response.chunks_failed
             = response.total_chunks

C27_Witness ==
    /\ FullSuccess
    /\ Len(posts) = 3
    /\ response.chunks_failed = 1
    /\ response.chunks_created = 2
    /\ chunks_to_insert[2].engagement_score = 1

\* reading the comments of a post, or assembling its chunk, raised
PostRaised ==
    \E i \in DOMAIN hlog :
       /\ hlog[i].ev \in {"r.get_comments_for_post", "generate_chunk"}
       /\ ~hlog[i].ok

\* C28: once reading the comments of a post or assembling its chunk has
\* raised, the loop is over: no further post is read or assembled, no writer
\* is created or connected, nothing is inserted or committed, and the handler
\* returns status 500 with the error.
C28_PostErrorAbortsRun ==
    PostRaised =>
       /\ hpc \in {"except", "cleanup_writer", "returned"}
       /\ ~hlog[Len(hlog)].ok \/ hlog[Len(hlog)].ev = "r.disconnect"
       /\ Len(chunks_to_insert) = pidx - 1
       /\ ~db_writer
       /\ wpc = "constructed"
       /\ connection = "None"
       /\ log = <<>>
       /\ pending = {} /\ committed = {}
       /\ hpc = "returned" =>
             /\ response.statusCode = 500
             /\ response.error = exc
             /\ exc \in {"r.get_comments_for_post", "generate_chunk"}

C28_Witness ==
    /\ hpc = "returned"
    /\ Len(posts) = 3
    /\ \E i \in DOMAIN hlog : hlog[i] = Ev("generate_chunk", 3, FALSE)
    /\ Len(chunks_to_insert) = 2
    /\ response.statusCode = 500
    /\ reader = "closed"

====
